---- MODULE Spec2Model ----
\* Model of the bounded caches of src/src/cache: LRUCache (lru.rs) and
\* TTLCache (ttl.rs) with its background sweep thread.
\*
\* A LinkedHashMap is a sequence of entries, head (oldest) first, holding
\* each key at most once.  An LRU entry is [k, v]; a TTL entry is
\* [k, v, expiry].  An Option is a sequence: <<>> is None, <<x>> is Some(x).
EXTENDS Integers, Sequences, FiniteSets, TLC

\* ---------------------------------------------------------------- bounds
\* LRUCache: keys 1..MaxKey, capacities 0..MaxCap, at most MaxGets gets
MaxKey == 3
MaxCap == 3
MaxGets == 2
\* LRUCache under concurrent callers (ConcSpec): threads 1..MaxThreads make
\* at most MaxConcCalls calls in all, on keys 1..MaxConcKey and capacities
\* 0..MaxConcCap
MaxThreads == 2
MaxConcCalls == 3
MaxConcKey == 2
MaxConcCap == 2
\* TTLCache (which adds time and the sweep thread): keys 1..MaxTtlKey,
\* capacities 0..MaxTtlCap, at most MaxTtlGets gets
MaxTtlKey == 2
MaxTtlCap == 2
MaxTtlGets == 1
\* under OrderSpec, which records no TTLCache history: keys 1..MaxOrderKey
MaxOrderKey == 3
\* the clock saturates at MaxTime: instants below it are exact, and
\* get and set are called only before it
MaxTime == 2
\* TTLCache::new's arguments ttl, check_interval and jitter, in clock ticks
Ttl == 1
CheckInterval == 1
Jitter == 1
\* the jitter divisor is drawn from 1..DivEnd-1
DivEnd == 100

Keys == 1..MaxKey
\* Values are opaque to both caches (Arc<V> is only stored, cloned and
\* returned), so two distinguishable values exercise every path.
Vals == {"a", "b"}
\* FairSpec, LockSpec and OrderSpec, whose claims do not read the values a
\* TTLCache stores, set one value only
OneVal == {"a"}
Caps == 0..MaxCap
TtlKeys == 1..MaxTtlKey
TtlCaps == 0..MaxTtlCap
OrderKeys == 1..MaxOrderKey
Threads == 1..MaxThreads
ConcKeys == 1..MaxConcKey
ConcCaps == 0..MaxConcCap

None == <<>>
Some(x) == <<x>>

\* ------------------------------------------------- LinkedHashMap operators
KeysOf(m) == {m[i].k : i \in 1..Len(m)}

ContainsKey(m, key) == key \in KeysOf(m)

IndexOf(m, key) == CHOOSE i \in 1..Len(m) : m[i].k = key

EntryOf(m, key) == m[IndexOf(m, key)]

Without(m, key) == SelectSeq(m, LAMBDA e : e.k # key)

\* LinkedHashMap::remove
RemoveKey(m, key) == Without(m, key)

\* LinkedHashMap::pop_front: drops the head, nothing on an empty map
PopFront(m) == IF m = <<>> THEN m ELSE Tail(m)

\* LinkedHashMap::insert: a new key is appended; an existing key has its
\* value replaced and its node moved to the back
Insert(m, e) == Append(Without(m, e.k), e)

\* LinkedHashMap::insert's result: the value replaced, if any
InsertResult(m, key) == IF ContainsKey(m, key) THEN Some(EntryOf(m, key).v) ELSE None

\* LinkedHashMap::get_refresh: a stored key moves to the back
GetRefresh(m, key) ==
    IF ContainsKey(m, key) THEN Append(Without(m, key), EntryOf(m, key)) ELSE m

\* ------------------------------------------------------------------ state
VARIABLES
    which,      \* the cache instance exercised in this behaviour: "lru", "ttl",
                \* "conc" (an LRUCache shared by threads) or "pair" (a
                \* TTLCache and an LRUCache given the same calls)
    history,    \* whether this behaviour records ttlLast and ttlCleared
    lruMap,     \* LRUCacheInner.key_value_map
    lruCap,     \* LRUCacheInner.capacity
    lruHits,    \* LRUCacheInner.hits
    lruMisses,  \* LRUCacheInner.misses
    lruRet,     \* what the last completed LRUCache call returned
    lruOp,      \* the last completed LRUCache call: [op, k]
    lruTouch,   \* history: the stored keys, least recently touched first
    lruGets,    \* history: number of completed get calls
    lruGone,    \* history: the keys whose entries the last call removed
    lruCleared  \* history: keys stored at the last clear and not set since

VARIABLES
    lruLock,    \* LRUCache.inner, the Mutex: the thread holding it, or 0
    thPc,       \* per thread: "idle", "lock" (a call has begun and waits for
                \* the lock), or its place inside the critical section
    thCall,     \* per thread: the call under way, [op, k, v, cap]
    thTmp,      \* per thread: get's local `result` and the counter value
                \* it read, [result, ctr]
    concLeft,   \* calls the threads may still begin
    seq         \* history: the LRUCacheInner a single caller would hold had
                \* it made the same calls in the order the lock was taken

VARIABLES
    ttlMap,     \* TTLCacheInner.key_value_map
    ttlCap,     \* TTLCacheInner.capacity
    ttlHits,    \* TTLCacheInner.hits
    ttlMisses,  \* TTLCacheInner.misses
    now,        \* the monotonic clock read by Instant::now()
    lock,       \* holder of the Mutex: "free" or "sweep" (a foreground
                \* critical section is one step and leaves it free)
    fgPc,       \* the foreground caller: "idle", or inside get at
                \* "get1" (now sampled, first lock block not yet entered)
                \* or "get2" (between the two lock blocks)
    getKey,     \* get's argument
    getNow,     \* get's local `now`
    getResult,  \* get's local `result`
    getExpired, \* get's local `expired`
    getSaw,     \* history: how get's key stood when get was called:
                \* "absent", "live" (expiry > now) or "expired"
    sweepPc,    \* the sweep thread: "plan", "sleep", "woke", "sweeping"
    sweepSleep, \* remaining time of the sweep thread's sleep
    sweepNow,   \* the sweep thread's local `now`
    ttlRet,     \* what the TTLCache call completed by the last step returned
    ttlOp,      \* what the last step completed: a TTLCache call
                \* [op, k, saw, gone] (saw is getSaw for a get, gone the
                \* keys whose entries the step removed), the sweep's
                \* pop of key k (op "swept"), or NoCall
    ttlLast,    \* history: per key, <<instant of its last set or hit,
                \* value last set>> while no foreground call has removed
                \* or missed it since, else <<>>
    ttlCleared  \* history: keys stored at the last clear and not set since

ttlVars == <<ttlMap, ttlCap, ttlHits, ttlMisses, now, lock, fgPc, getKey, getNow,
             getResult, getExpired, getSaw, sweepPc, sweepSleep, sweepNow, ttlRet, ttlOp,
             ttlLast, ttlCleared>>

lruVars == <<lruMap, lruCap, lruHits, lruMisses, lruRet, lruOp, lruTouch, lruGets, lruGone,
            lruCleared>>

concVars == <<lruLock, thPc, thCall, thTmp, concLeft, seq>>

VARIABLES
    pairHolds   \* history of a pair: every capacity so far was at least 1
                \* and no stored entry has reached its expiry

vars == <<which, history, pairHolds, concVars, lruVars, ttlVars>>

\* --------------------------------------------------------------- LRUCache
\* history: key was touched now; only keys still stored in m are tracked
Touched(order, key, m) ==
    SelectSeq(Append(SelectSeq(order, LAMBDA x : x # key), key),
              LAMBDA x : ContainsKey(m, x))

Untouched(order, m) == SelectSeq(order, LAMBDA x : ContainsKey(m, x))

\* a get that does not refresh the key's position
LruGetMap_NoRefresh(m, key) == m

\* LRUCache::get, the map after the call
LruGetMap(m, key) == GetRefresh(m, key)

\* LRUCache::get, the result
LruGetResult(m, key) == IF ContainsKey(m, key) THEN Some(EntryOf(m, key).v) ELSE None

\* a set that never evicts
LruSetMap_NoEvict(m, cap, key, val) == Insert(m, [k |-> key, v |-> val])

\* LRUCache::set, the map after the call: insert, then one pop_front if
\* the length exceeds the capacity
LruSetMap(m, cap, key, val) ==
    LET ins == Insert(m, [k |-> key, v |-> val])
    IN IF Len(ins) > cap THEN PopFront(ins) ELSE ins

\* LRUCache::set, the result
LruSetResult(m, key) == InsertResult(m, key)

\* LRUCache::change_capacity's loop: pop_front while len > capacity
RECURSIVE ShrinkTo(_, _)
ShrinkTo(m, cap) == IF Len(m) > cap THEN ShrinkTo(PopFront(m), cap) ELSE m

\* a change_capacity that pops at most once
LruChangeCapacityMap_PopOnce(m, cap) == IF Len(m) > cap THEN PopFront(m) ELSE m

LruChangeCapacityMap(m, cap) == ShrinkTo(m, cap)

\* LRUCache::clear
LruClearMap(m) == <<>>

\* a remove that fills the removed entry's place with the last entry
LruRemoveMap_Swap(m, key) ==
    IF ~ContainsKey(m, key) THEN m
    ELSE LET i == IndexOf(m, key)
             n == Len(m)
         IN IF i = n THEN SubSeq(m, 1, n - 1)
            ELSE [SubSeq(m, 1, n - 1) EXCEPT ![i] = m[n]]

\* LRUCache::remove
LruRemoveMap(m, key) == RemoveKey(m, key)

\* history: the keys stored in m and no longer in m2
Gone(m, m2) == KeysOf(m) \ KeysOf(m2)

\* LRUCache::get, the counters after the call
LruHitsAfterGet(hits, result) == IF result # None THEN hits + 1 ELSE hits

\* a get that loses the miss
LruMissesAfterGet_Lost(misses, result) == misses

LruMissesAfterGet(misses, result) == IF result # None THEN misses ELSE misses + 1

LruRemoveResult(m, key) == IF ContainsKey(m, key) THEN Some(EntryOf(m, key).v) ELSE None

LRUGet(key) ==
    /\ which = "lru"
    /\ lruGets < MaxGets
    /\ lruMap' = LruGetMap(lruMap, key)
    /\ lruRet' = LruGetResult(lruMap, key)
    /\ lruHits' = LruHitsAfterGet(lruHits, LruGetResult(lruMap, key))
    /\ lruMisses' = LruMissesAfterGet(lruMisses, LruGetResult(lruMap, key))
    /\ lruOp' = [op |-> "get", k |-> key]
    /\ lruGone' = Gone(lruMap, lruMap')
    /\ lruTouch' = IF ContainsKey(lruMap, key) THEN Touched(lruTouch, key, lruMap') ELSE lruTouch
    /\ lruGets' = lruGets + 1
    /\ UNCHANGED <<which, history, pairHolds, concVars, ttlVars, lruCap, lruCleared>>

LRUSet(key, val) ==
    /\ which = "lru"
    /\ lruMap' = LruSetMap(lruMap, lruCap, key, val)
    /\ lruRet' = LruSetResult(lruMap, key)
    /\ lruOp' = [op |-> "set", k |-> key]
    /\ lruGone' = Gone(lruMap, lruMap')
    /\ lruTouch' = Touched(lruTouch, key, lruMap')
    /\ lruCleared' = lruCleared \ {key}
    /\ UNCHANGED <<which, history, pairHolds, concVars, ttlVars, lruCap, lruHits, lruMisses, lruGets>>

LRURemove(key) ==
    /\ which = "lru"
    /\ lruMap' = LruRemoveMap(lruMap, key)
    /\ lruRet' = LruRemoveResult(lruMap, key)
    /\ lruOp' = [op |-> "remove", k |-> key]
    /\ lruGone' = Gone(lruMap, lruMap')
    /\ lruTouch' = Untouched(lruTouch, lruMap')
    /\ UNCHANGED <<which, history, pairHolds, concVars, ttlVars, lruCap, lruHits, lruMisses, lruGets, lruCleared>>

LRUClear ==
    /\ which = "lru"
    /\ lruMap' = LruClearMap(lruMap)
    /\ lruRet' = None
    /\ lruOp' = [op |-> "clear", k |-> 0]
    /\ lruGone' = Gone(lruMap, lruMap')
    /\ lruTouch' = Untouched(lruTouch, lruMap')
    /\ lruCleared' = KeysOf(lruMap)
    /\ UNCHANGED <<which, history, pairHolds, concVars, ttlVars, lruCap, lruHits, lruMisses, lruGets>>

LRUStats ==
    /\ which = "lru"
    /\ lruRet' = <<lruHits, lruMisses, Len(lruMap), lruCap>>
    /\ lruOp' = [op |-> "stats", k |-> 0]
    /\ lruGone' = {}
    /\ UNCHANGED <<which, history, pairHolds, concVars, ttlVars, lruMap, lruCap, lruHits, lruMisses, lruTouch, lruGets,
                   lruCleared>>

LRUChangeCapacity(cap) ==
    /\ which = "lru"
    /\ lruCap' = cap
    /\ lruMap' = LruChangeCapacityMap(lruMap, cap)
    /\ lruRet' = None
    /\ lruOp' = [op |-> "change_capacity", k |-> 0]
    /\ lruGone' = Gone(lruMap, lruMap')
    /\ lruTouch' = Untouched(lruTouch, lruMap')
    /\ UNCHANGED <<which, history, pairHolds, concVars, ttlVars, lruHits, lruMisses, lruGets, lruCleared>>

\* no call under way: thCall and thTmp of an idle thread
NoConcCall == [op |-> "none", k |-> 0, v |-> "-", cap |-> 0]

NoTmp == [result |-> None, ctr |-> 0]

\* LRUCache::new
LRUInit ==
    /\ lruMap = <<>>
    /\ lruCap \in Caps
    /\ lruHits = 0
    /\ lruMisses = 0
    /\ lruRet = None
    /\ lruOp = [op |-> "new", k |-> 0]
    /\ lruTouch = <<>>
    /\ lruGets = 0
    /\ lruGone = {}
    /\ lruCleared = {}
    /\ lruLock = 0
    /\ thPc = [t \in Threads |-> "idle"]
    /\ thCall = [t \in Threads |-> NoConcCall]
    /\ thTmp = [t \in Threads |-> NoTmp]
    /\ concLeft = MaxConcCalls
    /\ seq = [map |-> <<>>, cap |-> IF which = "conc" THEN lruCap ELSE 0,
              hits |-> 0, misses |-> 0]

LRUNext ==
    \/ \E key \in Keys : LRUGet(key)
    \/ \E key \in Keys, val \in Vals : LRUSet(key, val)
    \/ \E key \in Keys : LRURemove(key)
    \/ LRUClear
    \/ LRUStats
    \/ \E cap \in Caps : LRUChangeCapacity(cap)

\* ------------------------------------------- LRUCache, concurrent callers
\* The calls a thread may make
ConcCalls ==
    {[op |-> "get", k |-> key, v |-> "-", cap |-> 0] : key \in ConcKeys}
    \cup {[op |-> "set", k |-> key, v |-> val, cap |-> 0] : key \in ConcKeys, val \in Vals}
    \cup {[op |-> "remove", k |-> key, v |-> "-", cap |-> 0] : key \in ConcKeys}
    \cup {[op |-> "clear", k |-> 0, v |-> "-", cap |-> 0]}
    \cup {[op |-> "change_capacity", k |-> 0, v |-> "-", cap |-> cap] : cap \in ConcCaps}

\* a lock that excludes nobody
CanAcquire_Always(l) == TRUE

\* Mutex::lock returns only when no thread holds the Mutex
CanAcquire(l) == l = 0

\* the first statement of each method after `self.inner.lock().unwrap()`
FirstPc(op) ==
    CASE op = "get" -> "refresh"
      [] op = "set" -> "insert"
      [] op = "remove" -> "remove"
      [] op = "clear" -> "clear"
      [] op = "change_capacity" -> "setcap"

\* history: the call applied to q in one step, as a single caller's call is
SeqApply(q, call) ==
    CASE call.op = "get" ->
            [q EXCEPT !.map = LruGetMap(q.map, call.k),
                      !.hits = LruHitsAfterGet(q.hits, LruGetResult(q.map, call.k)),
                      !.misses = LruMissesAfterGet(q.misses, LruGetResult(q.map, call.k))]
      [] call.op = "set" ->
            [q EXCEPT !.map = LruSetMap(q.map, q.cap, call.k, call.v)]
      [] call.op = "remove" ->
            [q EXCEPT !.map = LruRemoveMap(q.map, call.k)]
      [] call.op = "clear" ->
            [q EXCEPT !.map = LruClearMap(q.map)]
      [] call.op = "change_capacity" ->
            [q EXCEPT !.map = LruChangeCapacityMap(q.map, call.cap), !.cap = call.cap]

\* a thread begins a call
ConcCall(t, call) ==
    /\ which = "conc"
    /\ thPc[t] = "idle"
    /\ concLeft > 0
    /\ thPc' = [thPc EXCEPT ![t] = "lock"]
    /\ thCall' = [thCall EXCEPT ![t] = call]
    /\ concLeft' = concLeft - 1
    /\ UNCHANGED <<which, history, pairHolds, lruVars, ttlVars, lruLock, thTmp, seq>>

\* `let mut inner = self.inner.lock().unwrap();`
ConcLock(t) ==
    /\ which = "conc"
    /\ thPc[t] = "lock"
    /\ CanAcquire(lruLock)
    /\ lruLock' = t
    /\ thPc' = [thPc EXCEPT ![t] = FirstPc(thCall[t].op)]
    /\ seq' = SeqApply(seq, thCall[t])
    /\ UNCHANGED <<which, history, pairHolds, lruVars, ttlVars, thCall, thTmp, concLeft>>

\* the method returns: its guard is dropped
Return(t) ==
    /\ lruLock' = 0
    /\ thPc' = [thPc EXCEPT ![t] = "idle"]
    /\ thCall' = [thCall EXCEPT ![t] = NoConcCall]

\* get, line 38: get_refresh
ConcGetRefresh(t) ==
    /\ which = "conc"
    /\ thPc[t] = "refresh"
    /\ lruMap' = GetRefresh(lruMap, thCall[t].k)
    /\ thTmp' = [thTmp EXCEPT ![t].result = LruGetResult(lruMap, thCall[t].k)]
    /\ thPc' = [thPc EXCEPT ![t] = "readctr"]
    /\ UNCHANGED <<which, history, pairHolds, ttlVars, lruCap, lruHits, lruMisses, lruRet, lruOp, lruTouch,
                   lruGets, lruGone, lruCleared, lruLock, thCall, concLeft, seq>>

\* get, lines 41 and 45: `+= 1` reads the counter
ConcGetRead(t) ==
    /\ which = "conc"
    /\ thPc[t] = "readctr"
    /\ thTmp' = [thTmp EXCEPT ![t].ctr = IF thTmp[t].result # None THEN lruHits ELSE lruMisses]
    /\ thPc' = [thPc EXCEPT ![t] = "writectr"]
    /\ UNCHANGED <<which, history, pairHolds, lruVars, ttlVars, lruLock, thCall, concLeft, seq>>

\* get, lines 41 and 45: `+= 1` writes the counter; get returns
ConcGetWrite(t) ==
    /\ which = "conc"
    /\ thPc[t] = "writectr"
    /\ IF thTmp[t].result # None
          THEN lruHits' = thTmp[t].ctr + 1 /\ lruMisses' = lruMisses
          ELSE lruMisses' = thTmp[t].ctr + 1 /\ lruHits' = lruHits
    /\ lruGets' = lruGets + 1
    /\ thTmp' = [thTmp EXCEPT ![t] = NoTmp]
    /\ Return(t)
    /\ UNCHANGED <<which, history, pairHolds, ttlVars, lruMap, lruCap, lruRet, lruOp, lruTouch, lruGone,
                   lruCleared, concLeft, seq>>

\* set, line 54: insert
ConcSetInsert(t) ==
    /\ which = "conc"
    /\ thPc[t] = "insert"
    /\ lruMap' = Insert(lruMap, [k |-> thCall[t].k, v |-> thCall[t].v])
    /\ thPc' = [thPc EXCEPT ![t] = "evict"]
    /\ UNCHANGED <<which, history, pairHolds, ttlVars, lruCap, lruHits, lruMisses, lruRet, lruOp, lruTouch,
                   lruGets, lruGone, lruCleared, lruLock, thCall, thTmp, concLeft, seq>>

\* set, lines 55-58: one pop_front if the length exceeds the capacity; set
\* returns
ConcSetEvict(t) ==
    /\ which = "conc"
    /\ thPc[t] = "evict"
    /\ lruMap' = IF Len(lruMap) > lruCap THEN PopFront(lruMap) ELSE lruMap
    /\ Return(t)
    /\ UNCHANGED <<which, history, pairHolds, ttlVars, lruCap, lruHits, lruMisses, lruRet, lruOp, lruTouch,
                   lruGets, lruGone, lruCleared, thTmp, concLeft, seq>>

\* remove, line 63
ConcRemove(t) ==
    /\ which = "conc"
    /\ thPc[t] = "remove"
    /\ lruMap' = RemoveKey(lruMap, thCall[t].k)
    /\ Return(t)
    /\ UNCHANGED <<which, history, pairHolds, ttlVars, lruCap, lruHits, lruMisses, lruRet, lruOp, lruTouch,
                   lruGets, lruGone, lruCleared, thTmp, concLeft, seq>>

\* clear, line 68
ConcClear(t) ==
    /\ which = "conc"
    /\ thPc[t] = "clear"
    /\ lruMap' = <<>>
    /\ Return(t)
    /\ UNCHANGED <<which, history, pairHolds, ttlVars, lruCap, lruHits, lruMisses, lruRet, lruOp, lruTouch,
                   lruGets, lruGone, lruCleared, thTmp, concLeft, seq>>

\* change_capacity, line 83
ConcSetCap(t) ==
    /\ which = "conc"
    /\ thPc[t] = "setcap"
    /\ lruCap' = thCall[t].cap
    /\ thPc' = [thPc EXCEPT ![t] = "shrink"]
    /\ UNCHANGED <<which, history, pairHolds, ttlVars, lruMap, lruHits, lruMisses, lruRet, lruOp, lruTouch,
                   lruGets, lruGone, lruCleared, lruLock, thCall, thTmp, concLeft, seq>>

\* change_capacity, lines 84-86: one iteration of the loop that pops
ConcShrinkPop(t) ==
    /\ which = "conc"
    /\ thPc[t] = "shrink"
    /\ Len(lruMap) > lruCap
    /\ lruMap' = PopFront(lruMap)
    /\ UNCHANGED <<which, history, pairHolds, ttlVars, lruCap, lruHits, lruMisses, lruRet, lruOp, lruTouch,
                   lruGets, lruGone, lruCleared, concVars>>

\* change_capacity, lines 84-87: the loop ends; change_capacity returns
ConcShrinkEnd(t) ==
    /\ which = "conc"
    /\ thPc[t] = "shrink"
    /\ ~(Len(lruMap) > lruCap)
    /\ Return(t)
    /\ UNCHANGED <<which, history, pairHolds, lruVars, ttlVars, thTmp, concLeft, seq>>

\* --------------------------------------------------------------- TTLCache
\* an enforce_capacity that removes only when over capacity
TtlEnforceCapacity_Over(m, cap) ==
    IF Len(m) > cap
        THEN IF m # <<>> THEN RemoveKey(m, m[1].k) ELSE m
        ELSE m

\* TTLCache::enforce_capacity: at or over capacity, remove the first key
TtlEnforceCapacity(m, cap) ==
    IF Len(m) >= cap
        THEN IF m # <<>> THEN RemoveKey(m, m[1].k) ELSE m
        ELSE m

\* TTLCache::set, the map after the call; t is its Instant::now()
TtlSetMap(m, cap, key, val, t) ==
    LET pre == IF ~ContainsKey(m, key) THEN TtlEnforceCapacity(m, cap) ELSE m
    IN Insert(pre, [k |-> key, v |-> val, expiry |-> t + Ttl])

\* TTLCache::set returns ()
TtlSetResult(m, key) == None

\* a lookup that renews the expiry where the entry stands
TtlLookupMap_InPlace(m, key, t) ==
    IF ContainsKey(m, key) /\ EntryOf(m, key).expiry > t
        THEN [m EXCEPT ![IndexOf(m, key)].expiry = t + Ttl]
        ELSE m

\* TTLCache::get, first lock block: get_refresh moves a stored key to the
\* back; its expiry is renewed only if it lies after get's `now`
TtlLookupMap(m, key, t) ==
    IF ContainsKey(m, key)
        THEN LET r == GetRefresh(m, key)
                 n == Len(r)
             IN IF r[n].expiry > t THEN [r EXCEPT ![n].expiry = t + Ttl] ELSE r
        ELSE m

\* TTLCache::get, first lock block: the pair (result, expired)
TtlLookupResult(m, key, t) ==
    IF ContainsKey(m, key) /\ EntryOf(m, key).expiry > t
        THEN Some(EntryOf(m, key).v)
        ELSE None

TtlLookupExpired(m, key, t) ==
    ContainsKey(m, key) /\ ~(EntryOf(m, key).expiry > t)

\* a get that leaves the expired key in the map
TtlFinishMap_Keep(m, key, result, expired) == m

\* TTLCache::get, second lock block: an expired key is removed on a miss
TtlFinishMap(m, key, result, expired) ==
    IF result = None /\ expired THEN RemoveKey(m, key) ELSE m

\* TTLCache::change_capacity's loop: remove the first key while len > capacity
RECURSIVE TtlShrinkTo(_, _)
TtlShrinkTo(m, cap) ==
    IF Len(m) > cap THEN TtlShrinkTo(RemoveKey(m, m[1].k), cap) ELSE m

TtlChangeCapacityMap(m, cap) == TtlShrinkTo(m, cap)

\* a clear that removes nothing
TtlClearMap_Noop(m) == m

\* TTLCache::clear
TtlClearMap(m) == <<>>

\* TTLCache::remove
TtlRemoveMap(m, key) == RemoveKey(m, key)

\* a test with the comparison reversed
SweepExpired_Reversed(e, t) == e.expiry > t

\* the sweep thread's test of the head entry
SweepExpired(e, t) == e.expiry < t

\* the sweep thread's loop condition: there is a head and it is expired
HeadExpired(m, t) == IF m = <<>> THEN FALSE ELSE SweepExpired(m[1], t)

\* the sweep thread's sleep duration for divisor d
SleepDuration(d) == CheckInterval + (IF d = 0 THEN 0 ELSE Jitter \div d)

\* history: ttlLast after a foreground call turned map m into m2
\* (touched is a set of at most one key, set to val at instant t)
Last(last, m, m2, touched, t, val) ==
    [x \in TtlKeys |-> IF x \in touched THEN <<t, val>>
                       ELSE IF x \in KeysOf(m) \ KeysOf(m2) THEN <<>>
                       ELSE last[x]]

\* ttlOp when the last step completed neither a call nor a pop
NoCall == [op |-> "none", k |-> 0, saw |-> "-", gone |-> {}]

\* history: how key stands in m at instant t
Standing(m, key, t) ==
    IF ~ContainsKey(m, key) THEN "absent"
    ELSE IF EntryOf(m, key).expiry <= t THEN "expired"
    ELSE "live"

FgFree == fgPc = "idle" /\ lock = "free"

\* a TTLCache exists in this behaviour, alone or in a pair
TtlRuns == which \in {"ttl", "pair"}

\* the calls on a pair are begun while pairHolds; once it is lost only the
\* call under way, the sweep thread and the clock go on
Called == which = "pair" => pairHolds

\* get, line 80: `now` is read before the lock is taken
TTLGetStart(key) ==
    /\ TtlRuns
    /\ Called
    /\ fgPc = "idle"
    /\ now < MaxTime
    /\ ttlHits + ttlMisses < MaxTtlGets
    /\ fgPc' = "get1"
    /\ getKey' = key
    /\ getNow' = now
    /\ getSaw' = Standing(ttlMap, key, now)
    /\ ttlRet' = None
    /\ ttlOp' = NoCall
    /\ UNCHANGED <<which, history, pairHolds, concVars, lruVars, ttlMap, ttlCap, ttlHits, ttlMisses, now, lock,
                   getResult, getExpired, sweepPc, sweepSleep, sweepNow, ttlLast, ttlCleared>>

\* get, lines 81-95: the first lock block
TTLGetLookup ==
    /\ TtlRuns
    /\ fgPc = "get1"
    /\ lock = "free"
    /\ ttlMap' = TtlLookupMap(ttlMap, getKey, getNow)
    /\ getResult' = TtlLookupResult(ttlMap, getKey, getNow)
    /\ getExpired' = TtlLookupExpired(ttlMap, getKey, getNow)
    /\ fgPc' = "get2"
    /\ ttlRet' = None
    /\ ttlOp' = NoCall
    /\ UNCHANGED <<which, history, pairHolds, concVars, lruVars, ttlCap, ttlHits, ttlMisses, now, lock, getKey, getNow,
                   getSaw, sweepPc, sweepSleep, sweepNow, ttlLast, ttlCleared>>

\* get, lines 97-107: the second lock block, and the return
TTLGetFinish ==
    /\ which = "ttl"
    /\ fgPc = "get2"
    /\ lock = "free"
    /\ IF getResult # None
          THEN ttlHits' = ttlHits + 1 /\ ttlMisses' = ttlMisses
          ELSE ttlMisses' = ttlMisses + 1 /\ ttlHits' = ttlHits
    /\ ttlMap' = TtlFinishMap(ttlMap, getKey, getResult, getExpired)
    /\ ttlRet' = getResult
    /\ ttlOp' = [op |-> "get", k |-> getKey, saw |-> getSaw, gone |-> Gone(ttlMap, ttlMap')]
    /\ ttlLast' = IF history
                      THEN [ttlLast EXCEPT ![getKey] =
                               IF getResult # None /\ @ # <<>> THEN <<getNow, @[2]>> ELSE <<>>]
                      ELSE ttlLast
    /\ fgPc' = "idle"
    /\ getKey' = 0
    /\ getNow' = 0
    /\ getResult' = None
    /\ getExpired' = FALSE
    /\ getSaw' = "-"
    /\ UNCHANGED <<which, history, pairHolds, concVars, lruVars, ttlCap, now, lock, sweepPc, sweepSleep, sweepNow,
                   ttlCleared>>

TTLSet(key, val) ==
    /\ which = "ttl"
    /\ FgFree
    /\ now < MaxTime
    /\ ttlMap' = TtlSetMap(ttlMap, ttlCap, key, val, now)
    /\ ttlRet' = TtlSetResult(ttlMap, key)
    /\ ttlOp' = [op |-> "set", k |-> key, saw |-> "-", gone |-> Gone(ttlMap, ttlMap')]
    /\ ttlLast' = IF history THEN Last(ttlLast, ttlMap, ttlMap', {key}, now, val) ELSE ttlLast
    /\ ttlCleared' = IF history THEN ttlCleared \ {key} ELSE ttlCleared
    /\ UNCHANGED <<which, history, pairHolds, concVars, lruVars, ttlCap, ttlHits, ttlMisses, now, lock, fgPc, getKey,
                   getNow, getResult, getExpired, getSaw, sweepPc, sweepSleep, sweepNow>>

TTLRemove(key) ==
    /\ which = "ttl"
    /\ FgFree
    /\ ttlMap' = TtlRemoveMap(ttlMap, key)
    /\ ttlRet' = None
    /\ ttlOp' = [op |-> "remove", k |-> key, saw |-> "-", gone |-> Gone(ttlMap, ttlMap')]
    /\ ttlLast' = IF history THEN [ttlLast EXCEPT ![key] = <<>>] ELSE ttlLast
    /\ UNCHANGED <<which, history, pairHolds, concVars, lruVars, ttlCap, ttlHits, ttlMisses, now, lock, fgPc, getKey,
                   getNow, getResult, getExpired, getSaw, sweepPc, sweepSleep, sweepNow, ttlCleared>>

TTLClear ==
    /\ which = "ttl"
    /\ FgFree
    /\ ttlMap' = TtlClearMap(ttlMap)
    /\ ttlRet' = None
    /\ ttlOp' = [op |-> "clear", k |-> 0, saw |-> "-", gone |-> Gone(ttlMap, ttlMap')]
    /\ ttlLast' = IF history THEN [x \in TtlKeys |-> <<>>] ELSE ttlLast
    /\ ttlCleared' = IF history THEN KeysOf(ttlMap) ELSE ttlCleared
    /\ UNCHANGED <<which, history, pairHolds, concVars, lruVars, ttlCap, ttlHits, ttlMisses, now, lock, fgPc, getKey,
                   getNow, getResult, getExpired, getSaw, sweepPc, sweepSleep, sweepNow>>

TTLStats ==
    /\ which = "ttl"
    /\ FgFree
    /\ ttlRet' = <<ttlHits, ttlMisses, Len(ttlMap), ttlCap>>
    /\ ttlOp' = [op |-> "stats", k |-> 0, saw |-> "-", gone |-> {}]
    /\ UNCHANGED <<which, history, pairHolds, concVars, lruVars, ttlMap, ttlCap, ttlHits, ttlMisses, now, lock, fgPc,
                   getKey, getNow, getResult, getExpired, getSaw, sweepPc, sweepSleep, sweepNow,
                   ttlLast, ttlCleared>>

TTLChangeCapacity(cap) ==
    /\ which = "ttl"
    /\ FgFree
    /\ ttlCap' = cap
    /\ ttlMap' = TtlChangeCapacityMap(ttlMap, cap)
    /\ ttlRet' = None
    /\ ttlOp' = [op |-> "change_capacity", k |-> 0, saw |-> "-", gone |-> Gone(ttlMap, ttlMap')]
    /\ ttlLast' = IF history THEN Last(ttlLast, ttlMap, ttlMap', {}, 0, 0) ELSE ttlLast
    /\ UNCHANGED <<which, history, pairHolds, concVars, lruVars, ttlHits, ttlMisses, now, lock, fgPc, getKey, getNow,
                   getResult, getExpired, getSaw, sweepPc, sweepSleep, sweepNow, ttlCleared>>

\* sweep thread, lines 46-52: the sleep duration is computed under the
\* lock, the lock is dropped, and the thread sleeps
SweepPlan ==
    /\ TtlRuns
    /\ sweepPc = "plan"
    /\ lock = "free"
    /\ \E dur \in {SleepDuration(d) : d \in 1..(DivEnd - 1)} : sweepSleep' = dur
    /\ sweepPc' = "sleep"
    /\ ttlRet' = None
    /\ ttlOp' = NoCall
    /\ UNCHANGED <<which, history, pairHolds, concVars, lruVars, ttlMap, ttlCap, ttlHits, ttlMisses, now, lock, fgPc,
                   getKey, getNow, getResult, getExpired, getSaw, sweepNow, ttlLast, ttlCleared>>

\* sweep thread, line 53: the sleep is over and `now` is read
SweepWake ==
    /\ TtlRuns
    /\ sweepPc = "sleep"
    /\ sweepSleep = 0
    /\ sweepNow' = now
    /\ sweepPc' = "woke"
    /\ ttlRet' = None
    /\ ttlOp' = NoCall
    /\ UNCHANGED <<which, history, pairHolds, concVars, lruVars, ttlMap, ttlCap, ttlHits, ttlMisses, now, lock, fgPc,
                   getKey, getNow, getResult, getExpired, getSaw, sweepSleep, ttlLast, ttlCleared>>

\* sweep thread, line 54: the lock is taken
SweepLock ==
    /\ TtlRuns
    /\ sweepPc = "woke"
    /\ lock = "free"
    /\ lock' = "sweep"
    /\ sweepPc' = "sweeping"
    /\ ttlRet' = None
    /\ ttlOp' = NoCall
    /\ UNCHANGED <<which, history, pairHolds, concVars, lruVars, ttlMap, ttlCap, ttlHits, ttlMisses, now, fgPc,
                   getKey, getNow, getResult, getExpired, getSaw, sweepSleep, sweepNow, ttlLast, ttlCleared>>

\* sweep thread, lines 55-57: one iteration that pops the expired head
SweepPop ==
    /\ TtlRuns
    /\ sweepPc = "sweeping"
    /\ HeadExpired(ttlMap, sweepNow)
    /\ ttlMap' = PopFront(ttlMap)
    /\ ttlRet' = None
    /\ ttlOp' = [op |-> "swept", k |-> ttlMap[1].k, saw |-> "-", gone |-> {ttlMap[1].k}]
    /\ UNCHANGED <<which, history, pairHolds, concVars, lruVars, ttlCap, ttlHits, ttlMisses, now, lock, fgPc, getKey,
                   getNow, getResult, getExpired, getSaw, sweepPc, sweepSleep, sweepNow, ttlLast, ttlCleared>>

\* a sweep cycle whose guard outlives the loop's iteration
SweepRelease_Held == "sweep"

\* sweep thread, line 62: the guard `cache` goes out of scope at the end of
\* the iteration and the lock is released
SweepRelease == "free"

\* sweep thread, lines 55-61: the loop ends at an empty map or a head that
\* is not expired; the guard is dropped and the next cycle begins
SweepBreak ==
    /\ TtlRuns
    /\ sweepPc = "sweeping"
    /\ ~HeadExpired(ttlMap, sweepNow)
    /\ lock' = SweepRelease
    /\ sweepPc' = "plan"
    /\ sweepNow' = 0
    /\ ttlRet' = None
    /\ ttlOp' = NoCall
    /\ UNCHANGED <<which, history, pairHolds, concVars, lruVars, ttlMap, ttlCap, ttlHits, ttlMisses, now, fgPc, getKey,
                   getNow, getResult, getExpired, getSaw, sweepSleep, ttlLast,
                   ttlCleared>>

\* history: no entry of m has reached its expiry at instant t
AllBefore(m, t) == \A i \in 1..Len(m) : m[i].expiry > t

\* the passage of time: the clock advances (up to MaxTime) and the sweep
\* thread's sleep runs down
Tick ==
    /\ TtlRuns
    /\ now' = IF now < MaxTime THEN now + 1 ELSE now
    /\ sweepSleep' = IF sweepSleep > 0 THEN sweepSleep - 1 ELSE 0
    /\ pairHolds' = IF which = "pair" THEN pairHolds /\ AllBefore(ttlMap, now') ELSE pairHolds
    /\ ttlRet' = None
    /\ ttlOp' = NoCall
    /\ UNCHANGED <<which, history, concVars, lruVars, ttlMap, ttlCap, ttlHits, ttlMisses, lock, fgPc,
                   getKey, getNow, getResult, getExpired, getSaw, sweepPc, sweepNow, ttlLast, ttlCleared>>

\* TTLCache::new
TTLInit ==
    /\ ttlMap = <<>>
    /\ ttlCap \in TtlCaps
    /\ ttlHits = 0
    /\ ttlMisses = 0
    /\ now = 0
    /\ lock = "free"
    /\ fgPc = "idle"
    /\ getKey = 0
    /\ getNow = 0
    /\ getResult = None
    /\ getExpired = FALSE
    /\ getSaw = "-"
    /\ sweepPc = "plan"
    /\ sweepSleep = 0
    /\ sweepNow = 0
    /\ ttlRet = None
    /\ ttlOp = NoCall
    /\ ttlLast = [x \in TtlKeys |-> <<>>]
    /\ ttlCleared = {}
    /\ pairHolds = (which = "pair" /\ ttlCap >= 1)

TTLNext ==
    \/ \E key \in TtlKeys : TTLGetStart(key)
    \/ TTLGetLookup
    \/ TTLGetFinish
    \/ \E key \in TtlKeys, val \in Vals : TTLSet(key, val)
    \/ \E key \in TtlKeys : TTLRemove(key)
    \/ TTLClear
    \/ TTLStats
    \/ \E cap \in TtlCaps : TTLChangeCapacity(cap)
    \/ SweepPlan
    \/ SweepWake
    \/ SweepLock
    \/ SweepPop
    \/ SweepBreak
    \/ Tick

\* ------------------------------ a TTLCache and an LRUCache, the same calls
\* Each foreground call is made on both caches, while pairHolds.  The
\* TTLCache's get is begun by TTLGetStart and TTLGetLookup; the sweep thread
\* and the clock run as for a TTLCache alone.

\* get returns on the TTLCache (lines 97-107); LRUCache::get is made
PairGetFinish ==
    /\ which = "pair"
    /\ fgPc = "get2"
    /\ lock = "free"
    /\ IF getResult # None
          THEN ttlHits' = ttlHits + 1 /\ ttlMisses' = ttlMisses
          ELSE ttlMisses' = ttlMisses + 1 /\ ttlHits' = ttlHits
    /\ ttlMap' = TtlFinishMap(ttlMap, getKey, getResult, getExpired)
    /\ ttlRet' = getResult
    /\ ttlOp' = [op |-> "get", k |-> getKey, saw |-> getSaw, gone |-> Gone(ttlMap, ttlMap')]
    /\ fgPc' = "idle"
    /\ getKey' = 0
    /\ getNow' = 0
    /\ getResult' = None
    /\ getExpired' = FALSE
    /\ getSaw' = "-"
    /\ lruMap' = LruGetMap(lruMap, getKey)
    /\ lruHits' = LruHitsAfterGet(lruHits, LruGetResult(lruMap, getKey))
    /\ lruMisses' = LruMissesAfterGet(lruMisses, LruGetResult(lruMap, getKey))
    /\ UNCHANGED <<which, history, pairHolds, concVars, ttlCap, now, lock, sweepPc, sweepSleep,
                   sweepNow, ttlLast, ttlCleared, lruCap, lruRet, lruOp, lruTouch, lruGets,
                   lruGone, lruCleared>>

PairSet(key, val) ==
    /\ which = "pair"
    /\ Called
    /\ FgFree
    /\ now < MaxTime
    /\ ttlMap' = TtlSetMap(ttlMap, ttlCap, key, val, now)
    /\ ttlRet' = TtlSetResult(ttlMap, key)
    /\ ttlOp' = [op |-> "set", k |-> key, saw |-> "-", gone |-> Gone(ttlMap, ttlMap')]
    /\ lruMap' = LruSetMap(lruMap, lruCap, key, val)
    /\ UNCHANGED <<which, history, pairHolds, concVars, ttlCap, ttlHits, ttlMisses, now, lock,
                   fgPc, getKey, getNow, getResult, getExpired, getSaw, sweepPc, sweepSleep,
                   sweepNow, ttlLast, ttlCleared, lruCap, lruHits, lruMisses, lruRet, lruOp,
                   lruTouch, lruGets, lruGone, lruCleared>>

PairRemove(key) ==
    /\ which = "pair"
    /\ Called
    /\ FgFree
    /\ ttlMap' = TtlRemoveMap(ttlMap, key)
    /\ ttlRet' = None
    /\ ttlOp' = [op |-> "remove", k |-> key, saw |-> "-", gone |-> Gone(ttlMap, ttlMap')]
    /\ lruMap' = LruRemoveMap(lruMap, key)
    /\ UNCHANGED <<which, history, pairHolds, concVars, ttlCap, ttlHits, ttlMisses, now, lock,
                   fgPc, getKey, getNow, getResult, getExpired, getSaw, sweepPc, sweepSleep,
                   sweepNow, ttlLast, ttlCleared, lruCap, lruHits, lruMisses, lruRet, lruOp,
                   lruTouch, lruGets, lruGone, lruCleared>>

PairClear ==
    /\ which = "pair"
    /\ Called
    /\ FgFree
    /\ ttlMap' = TtlClearMap(ttlMap)
    /\ ttlRet' = None
    /\ ttlOp' = [op |-> "clear", k |-> 0, saw |-> "-", gone |-> Gone(ttlMap, ttlMap')]
    /\ lruMap' = LruClearMap(lruMap)
    /\ UNCHANGED <<which, history, pairHolds, concVars, ttlCap, ttlHits, ttlMisses, now, lock,
                   fgPc, getKey, getNow, getResult, getExpired, getSaw, sweepPc, sweepSleep,
                   sweepNow, ttlLast, ttlCleared, lruCap, lruHits, lruMisses, lruRet, lruOp,
                   lruTouch, lruGets, lruGone, lruCleared>>

PairChangeCapacity(cap) ==
    /\ which = "pair"
    /\ Called
    /\ FgFree
    /\ ttlCap' = cap
    /\ ttlMap' = TtlChangeCapacityMap(ttlMap, cap)
    /\ ttlRet' = None
    /\ ttlOp' = [op |-> "change_capacity", k |-> 0, saw |-> "-", gone |-> Gone(ttlMap, ttlMap')]
    /\ lruCap' = cap
    /\ lruMap' = LruChangeCapacityMap(lruMap, cap)
    /\ pairHolds' = (pairHolds /\ cap >= 1)
    /\ UNCHANGED <<which, history, concVars, ttlHits, ttlMisses, now, lock,
                   fgPc, getKey, getNow, getResult, getExpired, getSaw, sweepPc, sweepSleep,
                   sweepNow, ttlLast, ttlCleared, lruHits, lruMisses, lruRet, lruOp,
                   lruTouch, lruGets, lruGone, lruCleared>>

\* ------------------------------------------------------- specifications
\* One cache of either kind is exercised; the other stays as built, with
\* capacity 0.
Init ==
    /\ which \in {"lru", "ttl"}
    /\ history = TRUE
    /\ LRUInit
    /\ TTLInit
    /\ which = "lru" => ttlCap = 0
    /\ which = "ttl" => lruCap = 0

Next == LRUNext \/ TTLNext

Spec == Init /\ [][Next]_vars

\* Time keeps advancing and the sweep thread is scheduled fairly: each of
\* its steps is taken if it stays possible.  A foreground critical section
\* is one step, so the lock the thread waits for is free whenever the
\* thread does not hold it.  Nothing is assumed of the foreground caller.
SweepFairness ==
    /\ WF_vars(Tick)
    /\ WF_vars(SweepPlan)
    /\ WF_vars(SweepWake)
    /\ WF_vars(SweepLock)
    /\ WF_vars(SweepPop)
    /\ WF_vars(SweepBreak)

\* A TTLCache alone, its history not recorded, one value set
FairInit ==
    /\ which = "ttl"
    /\ history = FALSE
    /\ LRUInit
    /\ TTLInit
    /\ lruCap = 0

FairNext ==
    \/ \E key \in TtlKeys : TTLGetStart(key)
    \/ TTLGetLookup
    \/ TTLGetFinish
    \/ \E key \in TtlKeys, val \in OneVal : TTLSet(key, val)
    \/ \E key \in TtlKeys : TTLRemove(key)
    \/ TTLClear
    \/ TTLStats
    \/ \E cap \in TtlCaps : TTLChangeCapacity(cap)
    \/ SweepPlan
    \/ SweepWake
    \/ SweepLock
    \/ SweepPop
    \/ SweepBreak
    \/ Tick

FairSpec == FairInit /\ [][FairNext]_vars /\ SweepFairness

\* Fair scheduling of every thread: besides SweepFairness, a get that has
\* started is scheduled, and it gets the lock if the lock is free again
\* and again (the sweep thread releases it at the end of every cycle).
LockFairness ==
    /\ SweepFairness
    /\ SF_vars(TTLGetLookup)
    /\ SF_vars(TTLGetFinish)

LockSpec == FairInit /\ [][FairNext]_vars /\ LockFairness

\* One LRUCache shared by the threads
ConcInit ==
    /\ which = "conc"
    /\ history = FALSE
    /\ LRUInit
    /\ TTLInit
    /\ lruCap \in ConcCaps
    /\ ttlCap = 0

ConcNext ==
    \E t \in Threads :
        \/ \E call \in ConcCalls : ConcCall(t, call)
        \/ ConcLock(t)
        \/ ConcGetRefresh(t)
        \/ ConcGetRead(t)
        \/ ConcGetWrite(t)
        \/ ConcSetInsert(t)
        \/ ConcSetEvict(t)
        \/ ConcRemove(t)
        \/ ConcClear(t)
        \/ ConcSetCap(t)
        \/ ConcShrinkPop(t)
        \/ ConcShrinkEnd(t)

ConcSpec == ConcInit /\ [][ConcNext]_vars

\* Either cache alone, the TTLCache with keys 1..MaxOrderKey and its
\* history not recorded
OrderInit ==
    /\ which \in {"lru", "ttl"}
    /\ history = FALSE
    /\ LRUInit
    /\ TTLInit
    /\ which = "lru" => ttlCap = 0
    /\ which = "ttl" => lruCap = 0

OrderNext ==
    \/ LRUNext
    \/ \E key \in OrderKeys : TTLGetStart(key)
    \/ TTLGetLookup
    \/ TTLGetFinish
    \/ \E key \in OrderKeys, val \in OneVal : TTLSet(key, val)
    \/ \E key \in OrderKeys : TTLRemove(key)
    \/ TTLClear
    \/ TTLStats
    \/ \E cap \in TtlCaps : TTLChangeCapacity(cap)
    \/ SweepPlan
    \/ SweepWake
    \/ SweepLock
    \/ SweepPop
    \/ SweepBreak
    \/ Tick

OrderSpec == OrderInit /\ [][OrderNext]_vars

\* A TTLCache and an LRUCache built with the same capacity, keys
\* 1..MaxOrderKey, histories not recorded, one value set
PairInit ==
    /\ which = "pair"
    /\ history = FALSE
    /\ LRUInit
    /\ TTLInit
    /\ lruCap = ttlCap

PairNext ==
    \/ \E key \in OrderKeys : TTLGetStart(key)
    \/ TTLGetLookup
    \/ PairGetFinish
    \/ \E key \in OrderKeys, val \in OneVal : PairSet(key, val)
    \/ \E key \in OrderKeys : PairRemove(key)
    \/ PairClear
    \/ \E cap \in TtlCaps : PairChangeCapacity(cap)
    \/ SweepPlan
    \/ SweepWake
    \/ SweepLock
    \/ SweepPop
    \/ SweepBreak
    \/ Tick

PairSpec == PairInit /\ [][PairNext]_vars

\* ------------------------------------------------------------------ claims
\* the value stored under key in m, as an Option
Stored(m, key) == IF ContainsKey(m, key) THEN Some(EntryOf(m, key).v) ELSE None

\* the last n entries of m, all of m if it has no more than n
LastN(m, n) == IF Len(m) > n THEN SubSeq(m, Len(m) - n + 1, Len(m)) ELSE m

\* C1: TTLCache: whenever no call and no sweep cycle is under way, the
\* number of stored entries is at most the capacity, for every capacity
\* including 0.
C1_TtlSizeWithinCapacity ==
    (fgPc = "idle" /\ lock = "free") => Len(ttlMap) <= ttlCap

\* C2: LRUCache: when a call returns, the number of stored entries is at
\* most the current capacity, for every capacity including 0.
C2_LruSizeWithinCapacity == Len(lruMap) <= lruCap

\* a set at capacity 0 has returned, its entry evicted at once
C2_Witness ==
    /\ lruOp.op = "set"
    /\ lruCap = 0
    /\ lruMap = <<>>

\* C3: LRUCache: a set of a new key into a cache whose size equals its
\* capacity (>= 1) evicts exactly the entry touched longest ago (a touch
\* is a get that hit or a set); every other entry keeps its value and the
\* new key is stored.
C3_LruEvictsLeastRecentlyTouched ==
    [][ ( /\ lruOp'.op = "set"
          /\ ~ContainsKey(lruMap, lruOp'.k)
          /\ Len(lruMap) = lruCap
          /\ lruCap >= 1 )
        => LET victim == lruTouch[1]
           IN /\ KeysOf(lruMap') = (KeysOf(lruMap) \ {victim}) \cup {lruOp'.k}
              /\ victim \in KeysOf(lruMap)
              /\ \A x \in KeysOf(lruMap) \ {victim} : Stored(lruMap', x) = Stored(lruMap, x) ]_vars

\* a set has evicted the entry inserted second while the entry inserted
\* first, refreshed by a get, stays ahead of the new key
C3_Witness ==
    /\ lruOp.op = "set"
    /\ lruCap = 2
    /\ lruHits >= 1
    /\ Cardinality(lruGone) = 1
    /\ Len(lruMap) = 2
    /\ lruMap[2].k = lruOp.k
    /\ lruGone # {lruOp.k}

\* C4: LRUCache: every get adds exactly 1 to exactly one counter (hits iff
\* the key is stored when it is called), no other call changes hits or
\* misses, and hits + misses is the number of completed gets.
C4_LruHitMissAccounting ==
    /\ [](lruHits + lruMisses = lruGets)
    /\ [][ /\ lruOp'.op = "get" =>
                IF ContainsKey(lruMap, lruOp'.k)
                    THEN lruHits' = lruHits + 1 /\ lruMisses' = lruMisses
                    ELSE lruMisses' = lruMisses + 1 /\ lruHits' = lruHits
           /\ lruOp'.op # "get" => lruHits' = lruHits /\ lruMisses' = lruMisses ]_vars

\* a hit and a miss have both been counted
C4_Witness == lruHits >= 1 /\ lruMisses >= 1 /\ lruGets = 2

\* C5: change_capacity(k) on either cache leaves size <= k and removes
\* exactly the (size - k) entries at the head: the map afterwards is the
\* last k entries of the map before, unchanged and in order, and the whole
\* map when k >= size.
C5_ChangeCapacityKeepsTail ==
    [][ /\ lruOp'.op = "change_capacity" =>
                Len(lruMap') <= lruCap' /\ lruMap' = LastN(lruMap, lruCap')
        /\ ttlOp'.op = "change_capacity" =>
                Len(ttlMap') <= ttlCap' /\ ttlMap' = LastN(ttlMap, ttlCap') ]_vars

\* a change_capacity has removed the head and kept the entry behind it
C5_Witness ==
    /\ lruOp.op = "change_capacity"
    /\ lruCap = 1
    /\ Cardinality(lruGone) = 1
    /\ Len(lruMap) = 1

\* C6: clear() on either cache empties the map and leaves hits, misses and
\* capacity as they were; afterwards a get of a key that was stored before
\* the clear returns nothing, until that key is set again.
C6_ClearEmptiesAndKeepsCounters ==
    [][ /\ lruOp'.op = "clear" =>
                /\ lruMap' = <<>>
                /\ lruHits' = lruHits /\ lruMisses' = lruMisses /\ lruCap' = lruCap
        /\ (lruOp'.op = "get" /\ lruOp'.k \in lruCleared) => lruRet' = None
        /\ ttlOp'.op = "clear" =>
                /\ ttlMap' = <<>>
                /\ ttlHits' = ttlHits /\ ttlMisses' = ttlMisses /\ ttlCap' = ttlCap
        /\ (ttlOp'.op = "get" /\ ttlOp'.k \in ttlCleared) => ttlRet' = None ]_vars

\* a TTLCache get of a key stored before the last clear has returned nothing
C6_Witness ==
    /\ ttlOp.op = "get"
    /\ ttlOp.k \in ttlCleared
    /\ ttlRet = None
    /\ ttlMisses = 1

\* C7: TTLCache: a get of a key that is stored with expiry <= now when get
\* is called returns nothing, adds 1 to misses and nothing to hits, and
\* the key is not stored when get returns.
C7_TtlLazyExpiry ==
    [][ (ttlOp'.op = "get" /\ ttlOp'.saw = "expired")
        => /\ ttlRet' = None
           /\ ttlMisses' = ttlMisses + 1
           /\ ttlHits' = ttlHits
           /\ ~ContainsKey(ttlMap', ttlOp'.k) ]_vars

\* a get of an expired key has returned, no more than one check interval
\* after construction and with the sweep thread asleep
C7_Witness ==
    /\ ttlOp.op = "get"
    /\ ttlOp.saw = "expired"
    /\ sweepPc = "sleep"
    /\ sweepSleep > 0
    /\ now <= CheckInterval

\* C8: TTLCache: a get of a key called less than ttl after the key's last
\* set or hit, with no foreground removal of the key in between, returns
\* the stored value, however the sweep thread is interleaved.
C8_TtlSlidingExpiry ==
    [][ ( /\ ttlOp'.op = "get"
          /\ ttlLast[getKey] # <<>>
          /\ getNow - ttlLast[getKey][1] < Ttl )
        => ttlRet' = Some(ttlLast[getKey][2]) ]_vars

\* key is stored in m with an expiry below the clock's bound, and no get
\* of it is under way
Waiting(m, key) ==
    /\ ContainsKey(m, key)
    /\ EntryOf(m, key).expiry < MaxTime
    /\ ~(fgPc # "idle" /\ getKey = key)

\* C9: TTLCache, with time advancing and the sweep thread scheduled fairly:
\* an entry that is stored and not being read does not stay in the map
\* for ever: with no further call on it, the sweep removes it.  (A get of
\* it, or a set that moves its expiry to the clock's bound, ends the wait.)
C9_TtlSweepRemovesExpired ==
    \A key \in TtlKeys : Waiting(ttlMap, key) ~> ~Waiting(ttlMap, key)

\* the sweep has popped an entry of a cache on which no get was called
C9_Witness ==
    /\ ttlOp.op = "swept"
    /\ ttlMap = <<>>
    /\ fgPc = "idle"
    /\ ttlHits + ttlMisses = 0

\* C10: set(key, value) on either cache returns the value stored under key
\* when it is called, and nothing if the key is not stored.
C10_SetReturnsPrevious ==
    [][ /\ lruOp'.op = "set" => lruRet' = Stored(lruMap, lruOp'.k)
        /\ ttlOp'.op = "set" => ttlRet' = Stored(ttlMap, ttlOp'.k) ]_vars

\* C11: TTLCache: get is one critical section: the sweep thread never holds
\* the lock between get's lookup and get's update of the counters, so it
\* never sees an expired entry that get has moved to the tail and not yet
\* removed.
C11_TtlGetIsOneCriticalSection ==
    lock = "sweep" => ~(fgPc = "get2" /\ getExpired /\ ContainsKey(ttlMap, getKey))

\* C12: TTLCache: when a sweep cycle releases the lock, no entry left in
\* the map has an expiry earlier than the `now` that cycle sampled,
\* however the foreground calls are interleaved.
C12_TtlSweepComplete ==
    [][ (lock = "sweep" /\ lock' = "free")
        => \A i \in 1..Len(ttlMap') : ~(ttlMap'[i].expiry < sweepNow) ]_vars

\* the entries of m are in non-decreasing order of expiry, head first
ExpiryOrdered(m) == \A i \in 1..Len(m) : \A j \in i..Len(m) : m[i].expiry <= m[j].expiry

\* C13: TTLCache: whenever the lock is not held, the stored entries are in
\* non-decreasing order of expiry from head to tail.
C13_TtlExpiryOrder == lock = "free" => ExpiryOrdered(ttlMap)

\* C14: TTLCache: a sweep cycle pops the head whenever the head's expiry is
\* <= the cycle's `now`, the condition under which get reports an entry
\* expired: the cycle ends only at an empty map or at a head whose expiry
\* is after its `now`.
C14_TtlSweepBoundary ==
    [][ (lock = "sweep" /\ lock' = "free")
        => (ttlMap' = <<>> \/ ttlMap'[1].expiry > sweepNow) ]_vars

\* m without its last entry
Front(m) == SubSeq(m, 1, Len(m) - 1)

\* C15: TTLCache: a set of a key that is not stored, made when
\* size >= capacity, removes exactly one entry, the head, before
\* inserting; made when size < capacity it removes nothing; a set of a
\* stored key removes nothing and leaves the size unchanged.
C15_TtlCapacityPreCheck ==
    [][ ttlOp'.op = "set" =>
          IF ContainsKey(ttlMap, ttlOp'.k)
              THEN KeysOf(ttlMap') = KeysOf(ttlMap) /\ Len(ttlMap') = Len(ttlMap)
              ELSE /\ ttlMap'[Len(ttlMap')].k = ttlOp'.k
                   /\ IF Len(ttlMap) >= ttlCap
                          THEN ttlMap # <<>> /\ Front(ttlMap') = Tail(ttlMap)
                          ELSE Front(ttlMap') = ttlMap ]_vars

\* the entries of m2 other than key's are those of m that m2 still holds,
\* unchanged and in the same order
OthersKept(m, m2, key) ==
    Without(m2, key) = SelectSeq(Without(m, key), LAMBDA e : ContainsKey(m2, e.k))

\* C16: TTLCache: every set of a key, and every lookup by get that finds
\* the key with expiry > get's `now`, leaves that entry at the tail with
\* expiry = (the instant the operation sampled) + ttl, and changes the
\* expiry and the relative order of no other entry.
C16_TtlTouchRefresh ==
    [][ /\ ttlOp'.op = "set" =>
            /\ ttlMap'[Len(ttlMap')].k = ttlOp'.k
            /\ ttlMap'[Len(ttlMap')].expiry = now + Ttl
            /\ OthersKept(ttlMap, ttlMap', ttlOp'.k)
        /\ (fgPc = "get1" /\ fgPc' = "get2" /\ getResult' # None) =>
            /\ ttlMap'[Len(ttlMap')].k = getKey
            /\ ttlMap'[Len(ttlMap')].expiry = getNow + Ttl
            /\ Without(ttlMap', getKey) = Without(ttlMap, getKey) ]_vars

\* get's lookup has found its key live in a map of two entries and left
\* it at the tail with the renewed expiry
C16_Witness ==
    /\ fgPc = "get2"
    /\ getResult # None
    /\ Len(ttlMap) = 2
    /\ ttlMap[2].k = getKey
    /\ ttlMap[2].expiry = getNow + Ttl

\* C17: TTLCache, under fair scheduling: the sweep thread holds the lock
\* only inside its loop, never while it plans or sleeps; the lock is
\* always released again; every get that starts returns; and every sweep
\* cycle completes.
C17_TtlLockProgress ==
    /\ [](sweepPc # "sweeping" => lock = "free")
    /\ (lock = "sweep") ~> (lock = "free")
    /\ (fgPc # "idle") ~> (fgPc = "idle")
    /\ (sweepPc = "sleep") ~> (sweepPc = "plan")

\* the sweep thread, holding the lock, has popped an entry while a get
\* stands between its two lock blocks, waiting for the lock
C17_Witness ==
    /\ ttlOp.op = "swept"
    /\ lock = "sweep"
    /\ fgPc = "get2"

\* C18: LRUCache under concurrent callers: whenever the lock is free the
\* contents, order, capacity and counters are those a single caller would
\* have after the same calls in the order the lock was taken; no
\* increment is lost (hits + misses = completed gets); and size <= capacity.
C18_LruConcurrentCallsAtomic ==
    lruLock = 0 =>
        /\ lruMap = seq.map
        /\ lruCap = seq.cap
        /\ lruHits = seq.hits
        /\ lruMisses = seq.misses
        /\ lruHits + lruMisses = lruGets
        /\ Len(lruMap) <= lruCap

\* a thread that called get waits for the lock while another, holding
\* it, stands between get's read and write of a counter
C18_Witness ==
    \E t \in Threads, u \in Threads :
        /\ lruLock = t
        /\ thPc[t] = "writectr"
        /\ thPc[u] = "lock"
        /\ thCall[u].op = "get"

\* m2 is m with the entry at index i taken out and every other entry in place
TakenOut(m, m2, i) ==
    /\ Len(m2) = Len(m) - 1
    /\ \A j \in 1..Len(m2) : m2[j] = m[IF j < i THEN j ELSE j + 1]

\* C19: remove(key) on either cache: if the key is absent nothing changes;
\* if it is stored exactly its entry is removed and the other entries keep
\* their order; capacity, hits and misses are unchanged; on LRUCache the
\* removed value is returned if and only if the key was stored.
C19_RemoveFrame ==
    [][ /\ lruOp'.op = "remove" =>
            /\ lruCap' = lruCap /\ lruHits' = lruHits /\ lruMisses' = lruMisses
            /\ IF ContainsKey(lruMap, lruOp'.k)
                   THEN /\ TakenOut(lruMap, lruMap', IndexOf(lruMap, lruOp'.k))
                        /\ lruRet' = Some(EntryOf(lruMap, lruOp'.k).v)
                   ELSE lruMap' = lruMap /\ lruRet' = None
        /\ ttlOp'.op = "remove" =>
            /\ ttlCap' = ttlCap /\ ttlHits' = ttlHits /\ ttlMisses' = ttlMisses
            /\ IF ContainsKey(ttlMap, ttlOp'.k)
                   THEN TakenOut(ttlMap, ttlMap', IndexOf(ttlMap, ttlOp'.k))
                   ELSE ttlMap' = ttlMap ]_vars

\* an LRUCache remove has taken a stored key out of a map of three entries
\* and returned its value
C19_Witness ==
    /\ lruOp.op = "remove"
    /\ lruGone = {lruOp.k}
    /\ lruRet # None
    /\ Len(lruMap) = 2

\* the keys of m, head first
KeyOrder(m) == [i \in 1..Len(m) |-> m[i].k]

\* C20: while every capacity is at least 1 and no entry has reached its
\* expiry, a TTLCache and an LRUCache given the same sequence of get, set,
\* remove, clear and change_capacity calls hold, after every call, the same
\* keys in the same head-to-tail order, with the same hits, misses and size.
C20_TtlMatchesLru ==
    (which = "pair" /\ pairHolds /\ fgPc = "idle") =>
        /\ KeyOrder(ttlMap) = KeyOrder(lruMap)
        /\ ttlHits = lruHits
        /\ ttlMisses = lruMisses
        /\ Len(ttlMap) = Len(lruMap)

\* both caches are full, have counted a hit, and a set of a new key has
\* just evicted the head
C20_Witness ==
    /\ which = "pair"
    /\ pairHolds
    /\ ttlOp.op = "set"
    /\ ttlOp.gone # {}
    /\ ttlCap >= 2
    /\ Len(ttlMap) = ttlCap
    /\ Len(lruMap) = lruCap
    /\ ttlHits >= 1

====
